---- MODULE Spec2Model ----
(***************************************************************************)
(* Operation tracker (pkg/tracker.go), its HTTP status handler             *)
(* (handlers.go) and its WebSocket relay (pkg/websocket.go) over a Redis   *)
(* key-value store and Redis streams.                                      *)
(*                                                                         *)
(* Strings that the code joins with ":" (fmt.Sprintf("operations:%s:%s"))  *)
(* are sequences of their ":"-separated segments, so that joining is       *)
(* sequence concatenation and two different (userID, operationID) pairs    *)
(* may spell the same Redis key exactly when they do in the code.          *)
(***************************************************************************)
EXTENDS Integers, Sequences, FiniteSets, TLC

\* ------------------------------------------------------------------ bounds
\* Number of create / update / markRead calls.
MaxCalls == 3
\* Number of UUIDs callers can name, and that the API's callers draw.
MaxOps == 2
\* Number of create / update calls made beside an open connection.
MaxEntries == 2
\* Number of frames a client sends on one connection.
MaxFrames == 1
\* Number of operations created beside two open connections.
MaxRelayed == 3

\* ------------------------------------------------------------------ inputs
\* Caller-supplied owner ids: "u1", and "u1:x", an owner id with a colon in it.
UserIDs == {<<"u1">>, <<"u1", "x">>}
\* uuid.New().String(): one segment (a UUID holds no colon).
UUIDs == {ToString(i) : i \in 1..MaxOps}
\* Caller-supplied operation ids: a UUID, or a string with a colon in it.
OperationIDs == {<<i>> : i \in UUIDs} \cup {<<"x", i>> : i \in UUIDs}
\* WebSocket connections: the one most specifications open, and all of them.
Sessions == {"s1"}
AllSessions == {"s1", "s2"}
\* Frames a client sends: a read_operation for an operation id, a frame of
\* another type, and bytes that are no JSON.
ClientFrames ==
  {[json |-> TRUE, Type |-> "read_operation", OperationID |-> <<i>>] : i \in UUIDs}
    \cup {[json |-> TRUE, Type |-> "ping", OperationID |-> <<>>],
          [json |-> FALSE, Type |-> "", OperationID |-> <<>>]}
\* Composite ids "<owner>:<id>" handed to UpdateOperation.
ComposedIDs == {u \o <<i>> : u \in UserIDs, i \in UUIDs}
\* (status, errorMsg) arguments of UpdateOperation.
Outcomes == {<<"Completed", "">>, <<"Failed", "timeout">>}
\* Every call also takes the Redis command of it that fails with a backend
\* error: "get", "set", "xadd", "xack", or "none".

VARIABLES
  store,     \* Redis keys "operations:..." -> marshalled Operation
  streams,   \* Redis streams "notifications:<user>" -> sequence of entries
  groups,    \* consumer groups: <<stream key, group name>> -> cursor and pending set
  issued,    \* UUIDs already handed out by uuid.New()
  calls,     \* number of create / update / markRead API calls; also what time.Now() reads
  ret,       \* the last tracker call: its arguments and what it returned
  okCalls,   \* history: per owner, the successful create / update / markRead calls
  created,   \* history: <<owner, id>> of every successful create
  mutated,   \* history: Redis keys written by update or markRead
  sess       \* per connection: the state of ServeWebSocket and its goroutines

vars == <<store, streams, groups, issued, calls, ret, okCalls, created, mutated, sess>>

\* ------------------------------------------------------------ data (operation.go)
\* Variant: the record is created without its status.
NewOperation_NoStatus(operationID, userID, now) ==
  [Key |-> operationID, Status |-> "", Timestamp |-> now,
   UserID |-> userID, Error |-> "", Read |-> FALSE]

\* type Operation, as CreateOperation fills it in.
NewOperation(operationID, userID, now) ==
  [Key |-> operationID, Status |-> "Pending", Timestamp |-> now,
   UserID |-> userID, Error |-> "", Read |-> FALSE]

\* json.Marshal(op): the field "error" is omitted when empty (omitempty).
Marshal(op) ==
  LET base == [key |-> op.Key, status |-> op.Status, timestamp |-> op.Timestamp,
               user_id |-> op.UserID, read |-> op.Read]
  IN  IF op.Error = "" THEN base ELSE base @@ [error |-> op.Error]

\* json.Unmarshal(data, &op): a missing field keeps the zero value.
Unmarshal(data) ==
  [Key |-> data.key, Status |-> data.status, Timestamp |-> data.timestamp,
   UserID |-> data.user_id,
   Error |-> IF "error" \in DOMAIN data THEN data.error ELSE "",
   Read |-> data.read]

\* type OperationResult, as GetOperation and the egress loop build it.
OperationResult(op) ==
  [Key |-> op.Key, Message |-> op.Status, Timestamp |-> op.Timestamp, Read |-> op.Read]

\* ------------------------------------------------------------ Redis
\* fmt.Sprintf("operations:%s:%s", userID, operationID)
OperationKey(userID, operationID) == <<"operations">> \o userID \o operationID
\* fmt.Sprintf("operations:%s", composedOperationID)
ComposedKey(composedOperationID) == <<"operations">> \o composedOperationID
\* fmt.Sprintf("notifications:%s", userID)
StreamKey(userID) == <<"notifications">> \o userID
\* The group name MarkOperationAsRead acknowledges against.
TrackerGroup == <<"consumer-group">>

\* RedisClient.Get(key).Result() returned no error: the key exists (else
\* redis.Nil) and the backend did not fail.
RedisGetOk(st, key, fault) == fault # "get" /\ key \in DOMAIN st
\* RedisClient.Set(key, data, 0)
RedisSet(st, key, data) ==
  [k \in DOMAIN st \cup {key} |-> IF k = key THEN data ELSE st[k]]
\* Variant: XAdd with MAXLEN 1, which keeps only the newest entry.
XAdd_Capped(ss, streamKey, data) ==
  LET old == IF streamKey \in DOMAIN ss THEN ss[streamKey] ELSE <<>>
      new == <<[ID |-> Len(old) + 1, data |-> data]>>
  IN  [k \in DOMAIN ss \cup {streamKey} |-> IF k = streamKey THEN new ELSE ss[k]]

\* RedisClient.XAdd: appends one entry; entry ids grow with the position.
XAdd(ss, streamKey, data) ==
  LET old == IF streamKey \in DOMAIN ss THEN ss[streamKey] ELSE <<>>
      new == Append(old, [ID |-> Len(old) + 1, data |-> data])
  IN  [k \in DOMAIN ss \cup {streamKey} |-> IF k = streamKey THEN new ELSE ss[k]]
\* RedisClient.XAck(streamKey, group, id): removes id from the group's pending
\* entries; a stream or group that does not exist acknowledges nothing (reply 0,
\* no error).
XAck(gs, streamKey, group, id) ==
  IF <<streamKey, group>> \in DOMAIN gs
  THEN [gs EXCEPT ![<<streamKey, group>>].pending = @ \ {id}]
  ELSE gs

StreamLen(ss, streamKey) == IF streamKey \in DOMAIN ss THEN Len(ss[streamKey]) ELSE 0

\* ------------------------------------------------------------ history
NoCounts == [create |-> 0, update |-> 0, markRead |-> 0]
Counts(userID) == IF userID \in DOMAIN okCalls THEN okCalls[userID] ELSE NoCounts
Counted(userID, kind) ==
  [u \in DOMAIN okCalls \cup {userID} |->
     IF u = userID THEN [Counts(u) EXCEPT ![kind] = @ + 1] ELSE okCalls[u]]

NoCall == [op |-> "none", user |-> <<>>, id |-> <<>>, status |-> "", fault |-> "none",
           found |-> FALSE, before |-> <<>>, err |-> "nil", res |-> <<>>]
Call(op, user, id, status, fault, found, before, err, res) ==
  [op |-> op, user |-> user, id |-> id, status |-> status, fault |-> fault,
   found |-> found, before |-> before, err |-> err, res |-> res]

\* A connection nobody opened yet. in, qu, eg: where the inbound pump, the queue
\* pump and the egress loop stand; inMsg, quMsg, egMsg: the value each holds;
\* written: the frames written to the connection; frames: frames the client
\* sent; updates (history): the statuses of the UpdateOperation calls made on
\* this owner's operations while the session was Active; start (history): the
\* length of the owner's stream when the group was created; readErr (history,
\* kept by QueueReadErrorNoted): the length of the owner's stream when
\* XReadGroup first returned an error to the queue pump, none before that.
NoSession ==
  [phase |-> "idle", user |-> <<>>, ctxDone |-> FALSE, clientGone |-> FALSE,
   in |-> "off", inMsg |-> <<>>, qu |-> "off", quMsg |-> <<>>,
   eg |-> "off", egMsg |-> <<>>, written |-> <<>>, frames |-> 0, updates |-> <<>>,
   start |-> 0, readErr |-> {}]

Init ==
  /\ sess = [s \in AllSessions |-> NoSession]
  /\ store = <<>>
  /\ streams = <<>>
  /\ groups = <<>>
  /\ issued = {}
  /\ calls = 0
  /\ ret = NoCall
  /\ okCalls = <<>>
  /\ created = {}
  /\ mutated = {}

\* ------------------------------------------------------------ tracker.go
\* uuid.New().String(): a UUID no earlier call drew. Which one it is does not
\* matter to any caller, so the model draws them in order; the specifications
\* bound how many are drawn.
NewUUID == ToString(Cardinality(issued) + 1)

\* Variant: the record is removed again when the stream append fails.
CreateStored_RolledBack(st, key, data, fault) ==
  IF fault \in {"set", "xadd"} THEN st ELSE RedisSet(st, key, data)

\* The store after CreateOperation: the record is set before the stream append
\* and stays when the append fails.
CreateStored(st, key, data, fault) ==
  IF fault = "set" THEN st ELSE RedisSet(st, key, data)

\* CreateOperation(ctx, userID)
CreateOperation(userID, fault) ==
  /\ \E operationID \in {NewUUID} :
       LET op == NewOperation(operationID, userID, calls)
           data == Marshal(op)
           key == OperationKey(userID, <<operationID>>)
           err == CASE fault = "set" -> "ErrFailedToSaveToRedis"
                    [] fault = "xadd" -> "ErrFailedToPublishUpdate"
                    [] OTHER -> "nil"
       IN  /\ issued' = issued \cup {operationID}
           /\ store' = CreateStored(store, key, data, fault)
           /\ streams' = IF err = "nil" THEN XAdd(streams, StreamKey(userID), data)
                         ELSE streams
           /\ okCalls' = IF err = "nil" THEN Counted(userID, "create") ELSE okCalls
           /\ created' = IF err = "nil" THEN created \cup {<<userID, operationID>>}
                         ELSE created
           /\ ret' = Call("create", userID,
                          IF err = "nil" THEN <<operationID>> ELSE <<>>,
                          "", fault, FALSE, <<>>, err, <<>>)
           /\ calls' = calls + 1
  /\ UNCHANGED <<groups, mutated>>

\* Variant: UpdateOperation has no transition guard.
InvalidOperationStatus_Never(op) == FALSE

\* Variant: the guard refuses operations that are already terminal.
InvalidOperationStatus_Terminal(op) == op.Status = "Completed" \/ op.Status = "Failed"

\* The transition guard of UpdateOperation: TRUE when the update is refused.
InvalidOperationStatus(op) == op.Status # "Completed" /\ op.Status # "Failed"

\* The fields UpdateOperation assigns.
Updated(op, status, errorMsg, now) ==
  [op EXCEPT !.Status = status, !.Error = errorMsg, !.Timestamp = now, !.Read = FALSE]

\* Variant: the error of Get is ignored and the empty value fails to decode.
UpdateError_GetIgnored(st, key, fault) ==
  CASE ~RedisGetOk(st, key, fault) -> "ErrFailedToUnmarshal"
    [] RedisGetOk(st, key, fault) /\ InvalidOperationStatus(Unmarshal(st[key])) ->
         "ErrInvalidOperationStatus"
    [] OTHER -> "nil"

\* The error UpdateOperation returns ("nil": none).
UpdateError(st, key, fault) ==
  CASE ~RedisGetOk(st, key, fault) -> "ErrOperationNotFound"
    [] RedisGetOk(st, key, fault) /\ InvalidOperationStatus(Unmarshal(st[key])) ->
         "ErrInvalidOperationStatus"
    [] RedisGetOk(st, key, fault) /\ ~InvalidOperationStatus(Unmarshal(st[key]))
         /\ fault = "set" -> "ErrFailedToUpdateRedis"
    [] RedisGetOk(st, key, fault) /\ ~InvalidOperationStatus(Unmarshal(st[key]))
         /\ fault = "xadd" -> "ErrFailedToPublishUpdate"
    [] OTHER -> "nil"

\* UpdateOperation(ctx, composedOperationID, status, errorMsg)
UpdateOperation(composedOperationID, status, errorMsg, fault) ==
  LET key == ComposedKey(composedOperationID)
      err == UpdateError(store, key, fault)
      op == Unmarshal(store[key])
      data == Marshal(Updated(op, status, errorMsg, calls))
      written == err \in {"nil", "ErrFailedToPublishUpdate"}
  IN  /\ calls' = calls + 1
      /\ store' = IF written THEN RedisSet(store, key, data) ELSE store
      /\ streams' = IF err = "nil" THEN XAdd(streams, StreamKey(op.UserID), data)
                    ELSE streams
      /\ okCalls' = IF err = "nil" THEN Counted(op.UserID, "update") ELSE okCalls
      /\ mutated' = IF written THEN mutated \cup {key} ELSE mutated
      /\ ret' = Call("update", <<>>, composedOperationID, status, fault,
                     key \in DOMAIN store,
                     IF key \in DOMAIN store THEN <<store[key]>> ELSE <<>>,
                     err, <<>>)
      /\ sess' = [s \in AllSessions |->
                    IF key \in DOMAIN store /\ fault = "none" /\ sess[s].phase = "active"
                       /\ sess[s].user = op.UserID
                    THEN [sess[s] EXCEPT !.updates = Append(@, status)]
                    ELSE sess[s]]
      /\ UNCHANGED <<groups, issued, created>>

\* GetOperation(ctx, userID, operationID): the error and the result it returns.
GetOperation(st, userID, operationID, fault) ==
  LET key == OperationKey(userID, operationID)
  IN  IF ~RedisGetOk(st, key, fault)
      THEN [err |-> "ErrOperationNotFound", res |-> <<>>]
      ELSE IF Unmarshal(st[key]).UserID # userID
      THEN [err |-> "ErrUnauthorizedAccess", res |-> <<>>]
      ELSE [err |-> "nil", res |-> <<OperationResult(Unmarshal(st[key]))>>]

\* A GetOperation call: it reads only.
GetOperationCall(userID, operationID, fault) ==
  LET key == OperationKey(userID, operationID)
      got == GetOperation(store, userID, operationID, fault)
  IN  /\ ret' = Call("get", userID, operationID, "", fault, key \in DOMAIN store,
                     IF key \in DOMAIN store THEN <<store[key]>> ELSE <<>>,
                     got.err, got.res)
      /\ UNCHANGED <<store, streams, groups, issued, calls, okCalls, created, mutated>>

\* ListOperations(ctx, userID): the operations under the keys that match
\* "operations:<userID>:*"; the pattern's "*" also matches a colon.
ListOperations(st, userID) ==
  LET prefix == <<"operations">> \o userID
  IN  {Unmarshal(st[key]) :
         key \in {k \in DOMAIN st : /\ Len(k) > Len(prefix)
                                     /\ SubSeq(k, 1, Len(prefix)) = prefix}}

\* A ListOperations call: it reads only.
ListOperationsCall(userID) ==
  /\ ret' = Call("list", userID, <<>>, "", "none", FALSE, <<>>, "nil",
                 <<ListOperations(store, userID)>>)
  /\ UNCHANGED <<store, streams, groups, issued, calls, okCalls, created, mutated>>

\* ------------------------------------------------------------ handlers.go
\* HTTPHandler.GetOperationStatus, GET /operation/status: operationID is the
\* operation_id query parameter and userID the X-User-ID header; the status code
\* and the body it answers. It hands GetOperation the operation id where the
\* owner is expected and the owner where the operation id is expected.
GetOperationStatus(st, operationID, userID, fault) ==
  IF operationID = <<>> \/ userID = <<>>
  THEN [code |-> "400", body |-> <<>>]
  ELSE LET got == GetOperation(st, operationID, userID, fault)
       IN  CASE got.err \in {"ErrOperationNotFound", "ErrUnauthorizedAccess"} ->
                  [code |-> "404", body |-> <<>>]
             [] got.err = "nil" -> [code |-> "200", body |-> got.res]
             [] OTHER -> [code |-> "500", body |-> <<>>]

\* A GET /operation/status request: it reads only.
GetOperationStatusCall(operationID, userID, fault) ==
  LET key == OperationKey(userID, operationID)
      resp == GetOperationStatus(store, operationID, userID, fault)
  IN  /\ ret' = Call("status", userID, operationID, "", fault, key \in DOMAIN store,
                     IF key \in DOMAIN store THEN <<store[key]>> ELSE <<>>,
                     resp.code, resp.body)
      /\ UNCHANGED <<store, streams, groups, issued, calls, okCalls, created, mutated>>

\* ------------------------------------------------------------ tracker.go (2)
\* Variant: the flag is flipped instead of set.
MarkedRead_Toggled(op) == [op EXCEPT !.Read = ~@]

\* The field MarkOperationAsRead assigns.
MarkedRead(op) == [op EXCEPT !.Read = TRUE]

\* Variant: the error of XAck is logged and dropped.
AckOutcome_Logged(fault) == "nil"

\* What MarkOperationAsRead returns once the record is saved: the outcome of XAck.
AckOutcome(fault) == IF fault = "xack" THEN "ErrFailedToRemoveFromList" ELSE "nil"

\* MarkOperationAsRead(ctx, userID, operationID); its caller counts the call.
MarkOperationAsRead(userID, operationID, fault) ==
  LET key == OperationKey(userID, operationID)
      found == RedisGetOk(store, key, fault)
      data == Marshal(MarkedRead(Unmarshal(store[key])))
      err == CASE ~found -> "ErrOperationNotFound"
               [] found /\ fault = "set" -> "ErrFailedToUpdateRedis"
               [] OTHER -> AckOutcome(fault)
      written == found /\ fault # "set"
  IN  /\ store' = IF written THEN RedisSet(store, key, data) ELSE store
      /\ groups' = IF written /\ fault # "xack"
                   THEN XAck(groups, StreamKey(userID), TrackerGroup, operationID)
                   ELSE groups
      /\ okCalls' = IF err = "nil" THEN Counted(userID, "markRead") ELSE okCalls
      /\ mutated' = IF written THEN mutated \cup {key} ELSE mutated
      /\ ret' = Call("markRead", userID, operationID, "", fault,
                     key \in DOMAIN store,
                     IF key \in DOMAIN store THEN <<store[key]>> ELSE <<>>,
                     err, <<>>)
      /\ UNCHANGED <<streams, issued, created>>

\* ------------------------------------------------------------ websocket.go
\* Variant: the group is named after the owner alone.
GroupName_PerOwner(s) == <<"group">>

\* fmt.Sprintf("group_%s_%s", userID, uuid.New().String()): one per connection.
GroupName(s) == <<"group", s>>
GroupOf(s) == <<StreamKey(sess[s].user), GroupName(s)>>

\* Variant: the group is created at "0", the start of the stream.
XGroupCreateMkStream_FromStart(gs, ss, streamKey, group) ==
  [g \in DOMAIN gs \cup {<<streamKey, group>>} |->
     IF g = <<streamKey, group>> THEN [last |-> 0, pending |-> {}] ELSE gs[g]]

\* XGroupCreateMkStream(streamKey, groupName, "$"): the stream is created when
\* missing, and the group starts after the last entry the stream holds.
XGroupCreateMkStream(gs, ss, streamKey, group) ==
  [g \in DOMAIN gs \cup {<<streamKey, group>>} |->
     IF g = <<streamKey, group>>
     THEN [last |-> StreamLen(ss, streamKey), pending |-> {}]
     ELSE gs[g]]
MkStream(ss, streamKey) ==
  [k \in DOMAIN ss \cup {streamKey} |-> IF k = streamKey /\ k \notin DOMAIN ss THEN <<>> ELSE ss[k]]

\* Variant: the read returns the newest entry of the stream.
XReadGroupNext_Newest(ss, gs, g) == StreamLen(ss, g[1])

\* XReadGroup(group, consumer, {streamKey, ">"}, Count 1, Block 0): the position
\* of the entry it returns, the first one never delivered to the group.
XReadGroupNext(ss, gs, g) == gs[g].last + 1
\* It has an entry to return; it blocks otherwise.
XReadGroupReady(ss, gs, g) == gs[g].last < StreamLen(ss, g[1])
\* Variant: XReadGroup with NoAck, the entry is acknowledged as it is read.
XReadGroupDelivered_NoAck(gs, g, entry) ==
  [gs EXCEPT ![g] = [last |-> @.last + 1, pending |-> @.pending]]

\* The group after the read: the entry is delivered and pending.
XReadGroupDelivered(gs, g, entry) ==
  [gs EXCEPT ![g] = [last |-> @.last + 1, pending |-> @.pending \cup {entry.ID}]]

\* The frame the egress loop writes for a stream entry: Message{Type:
\* "operation_result", Data: the OperationResult of the entry's snapshot}.
\* entry (history) is the id of the stream entry it was built from.
Frame(message) ==
  [Type |-> "operation_result", Data |-> OperationResult(Unmarshal(message.data)),
   entry |-> message.ID]

\* ServeWebSocket up to the start of its goroutines: Upgrade, then the group.
ServeWebSocket(s, userID, fault) ==
  /\ sess[s].phase = "idle"
  /\ IF fault = "none"
     THEN /\ groups' = XGroupCreateMkStream(groups, streams, StreamKey(userID), GroupName(s))
          /\ streams' = MkStream(streams, StreamKey(userID))
          /\ sess' = [sess EXCEPT ![s] = [@ EXCEPT !.phase = "active", !.user = userID,
                                            !.in = "select", !.qu = "select",
                                            !.eg = "select",
                                            !.start = StreamLen(streams, StreamKey(userID))]]
     ELSE /\ sess' = [sess EXCEPT ![s] = [@ EXCEPT !.phase = "closed", !.user = userID]]
          /\ UNCHANGED <<groups, streams>>
  /\ UNCHANGED <<store, issued, calls, ret, okCalls, created, mutated>>

\* What every step of a goroutine leaves alone unless it says otherwise.
TrackerUnchanged == UNCHANGED <<store, streams, groups, issued, calls, ret, okCalls, created, mutated>>

\* Inbound pump, "select": ctx.Done() ends it (and closes wsMsgChan), default reads.
InboundSelect(s) ==
  /\ sess[s].in = "select"
  /\ sess' = [sess EXCEPT ![s].in = IF sess[s].ctxDone THEN "done" ELSE "read"]
  /\ TrackerUnchanged

\* Variant: the inbound pump answers every client frame on the connection itself.
InboundReceived_Echo(r, frame) ==
  [r EXCEPT !.frames = @ + 1,
            !.in = IF frame.json THEN "send" ELSE "select",
            !.inMsg = IF frame.json THEN <<frame>> ELSE <<>>,
            !.written = Append(@, [Type |-> "echo", Data |-> frame, entry |-> 0])]

\* The inbound pump once ReadMessage returned a frame: a frame that does not
\* decode is skipped, a decoded one is handed to the egress loop.
InboundReceived(r, frame) ==
  [r EXCEPT !.frames = @ + 1,
            !.in = IF frame.json THEN "send" ELSE "select",
            !.inMsg = IF frame.json THEN <<frame>> ELSE <<>>]
InboundRead(s, frame) ==
  /\ sess[s].in = "read"
  /\ ~sess[s].clientGone /\ sess[s].eg # "done"
  /\ sess[s].frames < MaxFrames
  /\ sess' = [sess EXCEPT ![s] = InboundReceived(@, frame)]
  /\ TrackerUnchanged

\* Inbound pump, conn.ReadMessage() returned an error (the client is gone, or
\* ServeWebSocket returned and closed the connection): the pump returns.
InboundReadError(s) ==
  /\ sess[s].in = "read"
  /\ sess[s].clientGone \/ sess[s].eg = "done"
  /\ sess' = [sess EXCEPT ![s].in = "done"]
  /\ TrackerUnchanged

\* Queue pump, "select": ctx.Done() ends it (and closes streamMsgChan).
QueueSelect(s) ==
  /\ sess[s].qu = "select"
  /\ sess' = [sess EXCEPT ![s].qu = IF sess[s].ctxDone THEN "done" ELSE "xread"]
  /\ TrackerUnchanged

\* Variant: streamMsgChan is buffered, the send returns at once and the pump
\* goes on reading.
QueueHeld_Buffered(r, message) ==
  [r EXCEPT !.qu = "select", !.quMsg = Append(@, message)]

\* Queue pump, XReadGroup returned one entry: the pump holds it and blocks in
\* its send on the unbuffered streamMsgChan.
QueueHeld(r, message) ==
  [r EXCEPT !.qu = "send", !.quMsg = <<message>>]
QueueRead(s) ==
  /\ sess[s].qu = "xread"
  /\ XReadGroupReady(streams, groups, GroupOf(s))
  /\ LET message == streams[StreamKey(sess[s].user)][XReadGroupNext(streams, groups, GroupOf(s))]
     IN  /\ groups' = XReadGroupDelivered(groups, GroupOf(s), message)
         /\ sess' = [sess EXCEPT ![s] = QueueHeld(@, message)]
  /\ UNCHANGED <<store, streams, issued, calls, ret, okCalls, created, mutated>>

\* Queue pump, XReadGroup returned an error (a backend error, or the cancelled
\* context): it is logged and the loop continues.
\* Variant: the queue pump returns on an error of XReadGroup.
QueueFailed_Return(r) == [r EXCEPT !.qu = "done"]

\* The queue pump after the error: back at the top of its loop.
QueueFailed(r) == [r EXCEPT !.qu = "select"]
QueueReadError(s) ==
  /\ sess[s].qu = "xread"
  /\ sess' = [sess EXCEPT ![s] = QueueFailed(@)]
  /\ TrackerUnchanged
\* The same step with its history kept: the length of the stream at the first
\* error.
QueueReadErrorNoted(s) ==
  /\ sess[s].qu = "xread"
  /\ sess' = [sess EXCEPT ![s] =
               [QueueFailed(@) EXCEPT !.readErr =
                  IF @ = {} THEN {StreamLen(streams, StreamKey(sess[s].user))} ELSE @]]
  /\ TrackerUnchanged

\* Egress loop, case <-ctx.Done(): ServeWebSocket returns; its deferred calls
\* cancel the context and close the connection.
Returned(r) == [r EXCEPT !.eg = "done", !.ctxDone = TRUE, !.phase = "closed"]
EgressDone(s) ==
  /\ sess[s].eg = "select" /\ sess[s].ctxDone
  /\ sess' = [sess EXCEPT ![s] = Returned(@)]
  /\ TrackerUnchanged

\* Egress loop, case msg := <-wsMsgChan with the inbound pump sending: a
\* read_operation is handled by MarkOperationAsRead, whose error is only logged.
EgressInbound(s, fault) ==
  /\ sess[s].eg = "select" /\ sess[s].in = "send"
  /\ sess' = [sess EXCEPT ![s] = [@ EXCEPT !.in = "select", !.inMsg = <<>>]]
  /\ IF sess[s].inMsg[1].Type = "read_operation"
     THEN /\ MarkOperationAsRead(sess[s].user, sess[s].inMsg[1].OperationID, fault)
          /\ UNCHANGED calls
     ELSE TrackerUnchanged

\* Egress loop, case msg := <-wsMsgChan with the channel closed by the inbound
\* pump: the receive yields the zero Message, logged as an unknown type.
EgressInboundClosed(s) ==
  /\ sess[s].eg = "select" /\ sess[s].in = "done"
  /\ UNCHANGED vars

\* Egress loop, case message := <-streamMsgChan with the queue pump sending.
EgressStream(s) ==
  /\ sess[s].eg = "select" /\ sess[s].qu = "send"
  /\ sess' = [sess EXCEPT ![s] = [@ EXCEPT !.eg = "write", !.egMsg = sess[s].quMsg,
                                    !.qu = "select", !.quMsg = <<>>]]
  /\ TrackerUnchanged

\* Egress loop, case message := <-streamMsgChan with the channel closed by the
\* queue pump: message.Values is nil, the type assertion panics and
\* ServeWebSocket unwinds through its deferred calls.
EgressStreamClosed(s) ==
  /\ sess[s].eg = "select" /\ sess[s].qu = "done"
  /\ sess' = [sess EXCEPT ![s] = Returned(@)]
  /\ TrackerUnchanged

\* Egress loop, conn.WriteJSON(response) succeeded.
EgressWrite(s) ==
  /\ sess[s].eg = "write"
  /\ sess' = [sess EXCEPT ![s] = [@ EXCEPT !.eg = "ack",
                                    !.written = Append(@, Frame(sess[s].egMsg[1]))]]
  /\ TrackerUnchanged

\* Egress loop, conn.WriteJSON(response) failed: ServeWebSocket returns.
EgressWriteError(s) ==
  /\ sess[s].eg = "write" /\ sess[s].clientGone
  /\ sess' = [sess EXCEPT ![s] = [Returned(@) EXCEPT !.egMsg = <<>>]]
  /\ TrackerUnchanged

\* Egress loop, XAck(streamKey, groupName, message.ID); its error is only logged.
EgressAck(s, fault) ==
  /\ sess[s].eg = "ack"
  /\ groups' = IF fault = "none"
               THEN XAck(groups, StreamKey(sess[s].user), GroupName(s), sess[s].egMsg[1].ID)
               ELSE groups
  /\ sess' = [sess EXCEPT ![s] = [@ EXCEPT !.eg = "select", !.egMsg = <<>>]]
  /\ UNCHANGED <<store, streams, issued, calls, ret, okCalls, created, mutated>>

\* The goroutine waiting on r.Context().Done(): it cancels the context.
RequestDone(s) ==
  /\ sess[s].phase = "active" /\ ~sess[s].ctxDone
  /\ sess' = [sess EXCEPT ![s].ctxDone = TRUE]
  /\ TrackerUnchanged

\* The client goes away: reads fail from now on, and writes may.
ClientGone(s) ==
  /\ sess[s].phase = "active" /\ ~sess[s].clientGone
  /\ sess' = [sess EXCEPT ![s].clientGone = TRUE]
  /\ TrackerUnchanged

\* ------------------------------------------------------------ specification
\* The tracker's API, called in any order with any arguments.
Create ==
  /\ calls < MaxCalls /\ NewUUID \in UUIDs
  /\ \E u \in UserIDs, f \in {"none", "set", "xadd"} : CreateOperation(u, f)
  /\ UNCHANGED sess
Update ==
  /\ calls < MaxCalls
  /\ \E c \in ComposedIDs, o \in Outcomes, f \in {"none", "get", "set", "xadd"} :
       UpdateOperation(c, o[1], o[2], f)
Get ==
  /\ \E u \in UserIDs, i \in OperationIDs, f \in {"none", "get"} : GetOperationCall(u, i, f)
  /\ UNCHANGED sess
List ==
  /\ \E u \in UserIDs : ListOperationsCall(u)
  /\ UNCHANGED sess
Status ==
  /\ \E i \in OperationIDs, u \in UserIDs : GetOperationStatusCall(i, u, "none")
  /\ UNCHANGED sess
MarkRead ==
  /\ calls < MaxCalls
  /\ \E u \in UserIDs, i \in OperationIDs, f \in {"none", "get", "set", "xack"} :
       MarkOperationAsRead(u, i, f)
  /\ calls' = calls + 1
  /\ UNCHANGED sess

Next == Create \/ Update \/ Get \/ List \/ Status \/ MarkRead

Spec == Init /\ [][Next]_vars

\* The relay: one connection of owner "u1" beside the tracker's API.
WSUsers == {<<"u1">>}
Connect == \E s \in Sessions, u \in WSUsers, f \in {"none", "upgrade", "group"} : ServeWebSocket(s, u, f)
WSCreate ==
  /\ calls < MaxEntries /\ NewUUID \in UUIDs
  /\ \E u \in UserIDs : CreateOperation(u, "none")
  /\ UNCHANGED sess
WSUpdate ==
  /\ calls < MaxEntries
  /\ \E c \in ComposedIDs : UpdateOperation(c, "Completed", "", "none")
Inbound ==
  \E s \in Sessions :
    \/ InboundSelect(s)
    \/ \E frame \in ClientFrames : InboundRead(s, frame)
    \/ InboundReadError(s)
Queue == \E s \in Sessions : QueueSelect(s) \/ QueueRead(s) \/ QueueReadError(s)
Egress ==
  \E s \in Sessions :
    \/ EgressDone(s)
    \/ \E f \in {"none", "xack"} : EgressInbound(s, f)
    \/ EgressInboundClosed(s)
    \/ EgressStream(s)
    \/ EgressStreamClosed(s)
    \/ EgressWrite(s)
    \/ EgressWriteError(s)
    \/ \E f \in {"none", "xack"} : EgressAck(s, f)
Environment == \E s \in Sessions : RequestDone(s) \/ ClientGone(s)

NextWS == Connect \/ WSCreate \/ WSUpdate \/ Inbound \/ Queue \/ Egress \/ Environment

SpecWS == Init /\ [][NextWS]_vars

\* The relay with two connections of owner "u1": operations are created, the
\* queue pumps read, the egress loops write and acknowledge, and a client may
\* go away, which makes a write fail. The clients send nothing and no request
\* is cancelled.
RelayConnect == \E s \in AllSessions, u \in WSUsers : ServeWebSocket(s, u, "none")
RelayCreate ==
  /\ calls < MaxRelayed
  /\ \E u \in WSUsers : CreateOperation(u, "none")
  /\ UNCHANGED sess
RelayQueue == \E s \in AllSessions : QueueSelect(s) \/ QueueRead(s)
RelayEgress ==
  \E s \in AllSessions :
    \/ EgressStream(s)
    \/ EgressWrite(s)
    \/ EgressWriteError(s)
    \/ \E f \in {"none", "xack"} : EgressAck(s, f)
RelayEnvironment == \E s \in AllSessions : ClientGone(s)

NextRelay == RelayConnect \/ RelayCreate \/ RelayQueue \/ RelayEgress \/ RelayEnvironment

SpecRelay == Init /\ [][NextRelay]_vars

\* The relay with one connection of owner "u1" whose XReadGroup calls may fail:
\* operations are created, the queue pump reads or gets an error, the egress
\* loop writes and acknowledges, and the request may end or the client go away.
RetryConnect == \E s \in Sessions, u \in WSUsers : ServeWebSocket(s, u, "none")
RetryQueue == \E s \in Sessions : QueueSelect(s) \/ QueueRead(s) \/ QueueReadErrorNoted(s)
RetryEgress ==
  \E s \in Sessions :
    \/ EgressDone(s)
    \/ EgressStream(s)
    \/ EgressStreamClosed(s)
    \/ EgressWrite(s)
    \/ EgressWriteError(s)
    \/ \E f \in {"none", "xack"} : EgressAck(s, f)
RetryEnvironment == \E s \in Sessions : RequestDone(s) \/ ClientGone(s)

NextRetry == RetryConnect \/ RelayCreate \/ RetryQueue \/ RetryEgress \/ RetryEnvironment

SpecRetry == Init /\ [][NextRetry]_vars

\* ------------------------------------------------------------ claims
\* What the last call left under the key it addressed.
RetKey == IF ret.op = "update" THEN ComposedKey(ret.id) ELSE OperationKey(ret.user, ret.id)
RetBefore == Unmarshal(ret.before[1])
\* GetOperation by the owner and id the record itself carries.
GetOf(op) == GetOperation(store, op.UserID, <<op.Key>>, "none")

\* C1 (as claimed): after create(u1) returned an id, update on that Pending
\* operation succeeds and get then yields the new status with read=false; a
\* following markRead succeeds and get then yields read=true, status unchanged.
C1_Lifecycle ==
  /\ (ret.op = "update" /\ ret.found /\ ret.fault = "none"
        /\ <<RetBefore.UserID, RetBefore.Key>> \in created
        /\ RetBefore.Status = "Pending")
     => /\ ret.err = "nil"
        /\ GetOf(RetBefore).err = "nil"
        /\ GetOf(RetBefore).res[1].Message = ret.status
        /\ GetOf(RetBefore).res[1].Read = FALSE
  /\ (ret.op = "markRead" /\ ret.found /\ ret.fault = "none"
        /\ <<RetBefore.UserID, RetBefore.Key>> \in created)
     => /\ ret.err = "nil"
        /\ GetOf(RetBefore).err = "nil"
        /\ GetOf(RetBefore).res[1].Message = RetBefore.Status
        /\ GetOf(RetBefore).res[1].Read = TRUE

\* C2 (as claimed): every owner's queue is as long as the number of that owner's
\* successful create, update and markRead calls.
C2_CountAllCalls ==
  \A u \in UserIDs :
    StreamLen(streams, StreamKey(u)) =
      Counts(u).create + Counts(u).update + Counts(u).markRead

\* C2 (amended): every owner's queue is as long as the number of that owner's
\* successful create and update calls; a markRead call appends nothing.
C2_CountAppends ==
  \A u \in UserIDs :
    StreamLen(streams, StreamKey(u)) = Counts(u).create + Counts(u).update

\* C2 witness: an owner with two successful creates and a successful markRead.
C2_Witness ==
  \E u \in UserIDs : Counts(u).create = 2 /\ Counts(u).markRead >= 1

\* C3 (as claimed): get by any owner other than the one an operation was created
\* under returns Unauthorized.
C3_OtherOwnerUnauthorized ==
  \A c \in created : \A u \in UserIDs \ {c[1]} :
    GetOperation(store, u, <<c[2]>>, "none").err = "ErrUnauthorizedAccess"

\* C4: get(u, id) on an operation create(u) returned, not written since, yields
\* that id, status Pending and read=false.
C4_CreateThenGet ==
  \A c \in created :
    OperationKey(c[1], <<c[2]>>) \notin mutated =>
      LET got == GetOperation(store, c[1], <<c[2]>>, "none")
      IN  /\ got.err = "nil"
          /\ got.res[1].Key = c[2]
          /\ got.res[1].Message = "Pending"
          /\ got.res[1].Read = FALSE

\* C4 witness: a created operation nobody wrote, with other calls made since.
C4_Witness ==
  /\ \E c \in created : OperationKey(c[1], <<c[2]>>) \notin mutated
  /\ ret.op \in {"update", "markRead"}
  /\ calls = MaxCalls

\* C5: once the stored read flag of an operation is true, it is true in every
\* later state.
C5_ReadMonotonic ==
  [][\A k \in DOMAIN store :
       Unmarshal(store[k]).Read => (k \in DOMAIN store' /\ Unmarshal(store'[k]).Read)]_vars

\* C5 witness: update was called, with no backend error, on an operation whose
\* read flag was true.
C5_Witness ==
  ret.op = "update" /\ ret.found /\ ret.fault = "none" /\ RetBefore.Read

\* C6 (as claimed): markRead returns success when the record was saved with
\* read=true and the acknowledgment fails.
C6_AckFailureIgnored ==
  (ret.op = "markRead" /\ ret.found /\ ret.fault = "xack") => ret.err = "nil"

\* C6 (amended): when the record was saved with read=true and the
\* acknowledgment fails, markRead returns ErrFailedToRemoveFromList and the
\* record stays saved with read=true.
C6_AckFailureReturned ==
  (ret.op = "markRead" /\ ret.found /\ ret.fault = "xack") =>
    /\ ret.err = "ErrFailedToRemoveFromList"
    /\ Unmarshal(store[RetKey]).Read

\* C6 witness: a markRead whose acknowledgment failed, on an unread record.
C6_Witness ==
  ret.op = "markRead" /\ ret.found /\ ret.fault = "xack" /\ ~RetBefore.Read

\* C7: markRead on an existing operation returns no error and leaves the record
\* as it was but for read=true; so does a second markRead, which finds read=true.
C7_MarkReadIdempotent ==
  (ret.op = "markRead" /\ ret.found /\ ret.fault = "none") =>
    /\ ret.err = "nil"
    /\ Unmarshal(store[RetKey]).Read
    /\ Unmarshal(store[RetKey]) = [RetBefore EXCEPT !.Read = TRUE]

\* C7 witness: a successful markRead on a record that was already read.
C7_Witness ==
  ret.op = "markRead" /\ ret.found /\ ret.fault = "none" /\ RetBefore.Read

\* C8: update on a composite id with no record returns NotFound, writes no
\* record and appends to no queue.
C8_UpdateMissing ==
  [][(calls' # calls /\ ret'.op = "update" /\ ~ret'.found) =>
       /\ ret'.err = "ErrOperationNotFound"
       /\ store' = store
       /\ streams' = streams]_vars

\* C8 witness: update found no record under its key while other records exist.
C8_Witness ==
  ret.op = "update" /\ ~ret.found /\ ret.fault = "none" /\ DOMAIN store # {}

\* An Active session with nothing left to do: the context is live, the client
\* is there, the queue pump is blocked in XReadGroup with no entry to read and
\* the egress loop waits in its select.
Quiescent(s) ==
  /\ sess[s].phase = "active" /\ ~sess[s].ctxDone /\ ~sess[s].clientGone
  /\ sess[s].qu = "xread" /\ ~XReadGroupReady(streams, groups, GroupOf(s))
  /\ sess[s].eg = "select"
\* The statuses carried by the frames written for updates (a create's frame
\* carries Pending).
IsUpdateFrame(f) == f.Data.Message # "Pending"
UpdateFrames(s) ==
  LET fs == SelectSeq(sess[s].written, IsUpdateFrame)
  IN  [i \in 1..Len(fs) |-> fs[i].Data.Message]

\* C9 (as claimed): once an Active session with a live connection has nothing
\* left to deliver, it has written exactly one operation_result frame for each
\* update of its owner's operations made while it was Active, carrying that
\* update's status, in the order of the updates.
C9_EveryUpdateFramed ==
  \A s \in Sessions : Quiescent(s) => UpdateFrames(s) = sess[s].updates

\* C10: the frames a session wrote are for entries of its owner's queue, in the
\* order the entries were appended (entry ids grow in append order).
C10_FIFO ==
  \A s \in Sessions :
    LET w == sess[s].written
    IN  /\ \A i \in 1..Len(w) :
             /\ w[i].entry \in 1..StreamLen(streams, StreamKey(sess[s].user))
             /\ w[i] = Frame(streams[StreamKey(sess[s].user)][w[i].entry])
        /\ \A i, j \in 1..Len(w) : i < j => w[i].entry < w[j].entry

\* C10 witness: a session wrote the frames of two entries.
C10_Witness == \E s \in Sessions : Len(sess[s].written) >= 2

\* The ids of the entries a session holds or has written a frame for.
Held(s) ==
  {sess[s].quMsg[i].ID : i \in 1..Len(sess[s].quMsg)}
    \cup {sess[s].egMsg[i].ID : i \in 1..Len(sess[s].egMsg)}
Framed(s) == {sess[s].written[i].entry : i \in 1..Len(sess[s].written)}

\* C11: a session reads and writes frames only for entries appended after its
\* consumer group was created; the entries its owner's queue held before that
\* are never delivered to its group, held by its pumps or written.
C11_LatestOnly ==
  \A s \in Sessions :
    sess[s].phase # "idle" =>
      /\ \A id \in Held(s) \cup Framed(s) : id > sess[s].start
      /\ GroupOf(s) \in DOMAIN groups =>
            /\ groups[GroupOf(s)].last >= sess[s].start
            /\ \A id \in groups[GroupOf(s)].pending : id > sess[s].start

\* C11 witness: the queue held an entry when the session connected, and the
\* session has written a frame since.
C11_Witness ==
  \E s \in Sessions : sess[s].start >= 1 /\ Len(sess[s].written) >= 1

\* C12: every frame written to a session's connection is written by its egress
\* loop, at its WriteJSON call, one frame per step and while neither pump
\* moves; no step of a pump, of the tracker or of the environment writes one.
C12_SingleWriter ==
  [][\A s \in Sessions :
       sess'[s].written # sess[s].written =>
         /\ sess[s].eg = "write" /\ sess'[s].eg = "ack"
         /\ Len(sess[s].egMsg) = 1
         /\ sess'[s].written = Append(sess[s].written, Frame(sess[s].egMsg[1]))
         /\ sess'[s].in = sess[s].in /\ sess'[s].inMsg = sess[s].inMsg
         /\ sess'[s].qu = sess[s].qu /\ sess'[s].quMsg = sess[s].quMsg]_vars

\* C12 witness: the inbound pump has read a client frame and holds it for the
\* egress loop, the queue pump holds an entry, and the egress loop has written
\* a frame.
C12_Witness ==
  \E s \in Sessions :
    /\ Len(sess[s].written) >= 1
    /\ sess[s].in = "send" /\ sess[s].qu = "send"

\* C13 (as claimed): GET /operation/status with the id of an operation stored
\* under the owner named in the header answers that operation's result, not 404
\* or 500; it answers 404 only when GetOperation for that owner and id reports
\* not-found or unauthorized.
C13_StatusOfExisting ==
  /\ (ret.op = "status" /\ ret.fault = "none" /\ ret.found
        /\ RetBefore.UserID = ret.user)
     => /\ ret.err = "200"
        /\ ret.res = <<OperationResult(RetBefore)>>
  /\ (ret.op = "status" /\ ret.err = "404")
     => GetOperation(store, ret.user, ret.id, ret.fault).err
          \in {"ErrOperationNotFound", "ErrUnauthorizedAccess"}

\* The steps a session's goroutines take by themselves: every step of the two
\* pumps and of the egress loop but an error returned by XReadGroup. Appending
\* an entry, cancelling the request, the client going away and a backend error
\* are not among them.
OwnStep ==
  \/ Inbound
  \/ \E s \in Sessions : QueueSelect(s) \/ QueueRead(s)
  \/ Egress

\* C14 (as claimed): once the inbound pump has ended on a failed read with the
\* context not cancelled, the session is on its way out of Active by itself:
\* while it is still Active some goroutine of it has a step to take that
\* changes the state, with no further entry, no cancelled request and no
\* backend error, until the egress loop has returned.
C14_ReadFailureCloses ==
  \A s \in Sessions :
    (sess[s].phase = "active" /\ sess[s].in = "done" /\ ~sess[s].ctxDone)
      => ENABLED <<OwnStep>>_vars

\* C15 (as claimed): once cancellation is raised or the egress loop has
\* returned, a pump that has not exited is never left without a way on: a step
\* of that pump, or of the egress loop that receives from it, is enabled, also
\* when the pump is blocked in its send on the unbuffered channel.
C15_PumpsExit ==
  \A s \in Sessions :
    (sess[s].ctxDone \/ sess[s].eg = "done") =>
      /\ sess[s].in \notin {"off", "done"} => ENABLED <<Inbound \/ Egress>>_vars
      /\ sess[s].qu \notin {"off", "done"} => ENABLED <<Queue \/ Egress>>_vars

\* The entries delivered to a session's group and acknowledged in it, and the
\* ones still pending.
Pending(s) == IF GroupOf(s) \in DOMAIN groups THEN groups[GroupOf(s)].pending ELSE {}
Acked(s) ==
  IF GroupOf(s) \in DOMAIN groups
  THEN {id \in (sess[s].start + 1)..groups[GroupOf(s)].last : id \notin Pending(s)}
  ELSE {}

\* C16: a session acknowledges an entry only after it wrote the entry's frame;
\* when the write fails the egress loop returns with the entry unwritten and
\* still pending, and a returned session acknowledges nothing any more; when
\* the acknowledgment fails the egress loop goes back to its select and the
\* session stays Active.
C16_AckAfterWrite ==
  [][\A s \in Sessions :
       /\ Acked(s)' \subseteq Framed(s)
       /\ (sess[s].eg = "write" /\ sess'[s].eg = "done") =>
             /\ sess[s].egMsg[1].ID \notin Framed(s)'
             /\ sess[s].egMsg[1].ID \in Pending(s)'
             /\ sess'[s].phase = "closed"
       /\ sess[s].eg = "done" => Acked(s)' = Acked(s) /\ sess'[s].eg = "done"
       /\ (sess[s].eg = "ack" /\ sess'[s].eg # "ack") =>
             /\ sess'[s].eg = "select" /\ sess'[s].phase = "active"
             /\ Acked(s)' \subseteq Acked(s) \cup {sess[s].egMsg[1].ID}]_vars

\* C16 witness: a session has returned on a failed write, the entry of that
\* write is pending and has no frame, and an entry written before it is still
\* pending because its acknowledgment failed.
C16_Witness ==
  \E s \in Sessions :
    /\ sess[s].eg = "done"
    /\ Pending(s) \cap Framed(s) # {}
    /\ Pending(s) \ (Framed(s) \cup Held(s)) # {}

\* The entries a session's group has read and its egress loop has not finished
\* with: the ones read since the group was created, less the ones whose frame
\* was written and whose acknowledgment was attempted.
InFlight(s) ==
  IF GroupOf(s) \in DOMAIN groups
  THEN (groups[GroupOf(s)].last - sess[s].start)
         - (Len(sess[s].written) - (IF sess[s].eg = "ack" THEN 1 ELSE 0))
  ELSE 0

\* C17: the queue pump holds at most one entry; it holds exactly one while it
\* is in its send and none while it selects or reads, so it reads no further
\* entry before the egress loop received the one it holds; the entries read by
\* the group and not finished by the egress loop are never more than two.
C17_BackPressure ==
  \A s \in AllSessions :
    /\ Len(sess[s].quMsg) <= 1
    /\ sess[s].qu \in {"select", "xread"} => sess[s].quMsg = <<>>
    /\ sess[s].qu = "send" => Len(sess[s].quMsg) = 1
    /\ InFlight(s) \in 0..2

\* C17 witness: the queue pump holds an entry, blocked in its send, while the
\* egress loop still works on the entry before it and a further entry waits in
\* the queue unread.
C17_Witness ==
  \E s \in AllSessions :
    /\ sess[s].qu = "send" /\ sess[s].eg \in {"write", "ack"}
    /\ InFlight(s) = 2
    /\ XReadGroupReady(streams, groups, GroupOf(s))

\* C18: an error of XReadGroup while the context is live ends nothing: the pump
\* goes back to the top of its loop with the session Active, the egress loop
\* and the group untouched, and from there it calls XReadGroup again; the pump
\* leaves its loop only with the context cancelled; and a session with nothing
\* left to do has written a frame for every entry appended since its group was
\* created, whatever errors its reads returned.
C18_ReadErrorRetried ==
  /\ [](\A s \in Sessions :
          Quiescent(s) =>
            Framed(s) = (sess[s].start + 1)..StreamLen(streams, StreamKey(sess[s].user)))
  /\ [][\A s \in Sessions :
          /\ (sess[s].qu = "xread" /\ sess'[s].qu = "select" /\ ~sess[s].ctxDone) =>
                /\ sess'[s].phase = "active" /\ ~sess'[s].ctxDone
                /\ sess'[s].eg = sess[s].eg
                /\ groups' = groups
          /\ (sess[s].qu = "select" /\ ~sess[s].ctxDone /\ sess'[s].qu # "select") =>
                sess'[s].qu = "xread"
          /\ (sess[s].qu # "done" /\ sess'[s].qu = "done") => sess[s].ctxDone]_vars

\* C18 witness: XReadGroup returned an error with the context live, and the
\* session, still Active, has since written the frame of an entry appended
\* after that error.
C18_Witness ==
  \E s \in Sessions :
    /\ sess[s].phase = "active" /\ ~sess[s].ctxDone
    /\ \E n \in sess[s].readErr : \E id \in Framed(s) : id > n

\* C19: two sessions of one owner have two consumer groups; a session with
\* nothing left to do has written a frame for every entry appended since its
\* own group was created, whatever the other session read or acknowledged; and
\* a session's group (its cursor and its pending entries) changes only in a
\* step of that session.
C19_SessionsIsolated ==
  /\ [](\A s, t \in AllSessions :
          /\ (s # t /\ sess[s].phase # "idle" /\ sess[t].phase # "idle") =>
                GroupOf(s) # GroupOf(t)
          /\ Quiescent(s) =>
                Framed(s) = (sess[s].start + 1)..StreamLen(streams, StreamKey(sess[s].user)))
  /\ [][\A t \in AllSessions :
          (GroupOf(t) \in DOMAIN groups /\ sess'[t] = sess[t]) =>
            /\ GroupOf(t) \in DOMAIN groups'
            /\ groups'[GroupOf(t)] = groups[GroupOf(t)]]_vars

\* C19 witness: two sessions of one owner, the second connected after an entry
\* the first one was delivered; both have nothing left to do, both wrote the
\* entries appended since the second connected, and an entry the first
\* acknowledged is still pending for the second.
C19_Witness ==
  \E s, t \in AllSessions :
    /\ s # t /\ sess[s].user = sess[t].user
    /\ Quiescent(s) /\ Quiescent(t)
    /\ sess[s].start < sess[t].start
    /\ Framed(t) # {} /\ Framed(t) \subseteq Framed(s) /\ Framed(s) # Framed(t)
    /\ Acked(s) \cap Pending(t) # {}

\* C20: every stored operation has status Pending, in every state reached from
\* the empty store; and an UpdateOperation call that finds the record under its
\* key returns ErrInvalidOperationStatus and leaves the store and every queue
\* as they were, whatever status it was asked to set.
C20_AlwaysPending ==
  /\ [](\A key \in DOMAIN store : Unmarshal(store[key]).Status = "Pending")
  /\ [][(calls' # calls /\ ret'.op = "update" /\ ret'.found /\ ret'.fault # "get") =>
          /\ ret'.err = "ErrInvalidOperationStatus"
          /\ store' = store /\ streams' = streams
          /\ okCalls' = okCalls]_vars

\* C20 witness: an update asked to complete a created operation that was
\* marked read, with no backend error, was refused and the record is as it was.
C20_Witness ==
  /\ ret.op = "update" /\ ret.found /\ ret.fault = "none" /\ ret.status = "Completed"
  /\ <<RetBefore.UserID, RetBefore.Key>> \in created
  /\ ret.err = "ErrInvalidOperationStatus"
  /\ RetBefore.Read /\ store[RetKey] = ret.before[1]

\* The operation ids the entries of the streams carry.
Notified ==
  UNION {{Unmarshal(streams[k][i].data).Key : i \in 1..Len(streams[k])} : k \in DOMAIN streams}

\* C21: a CreateOperation call whose record write succeeds and whose stream
\* append fails returns ErrFailedToPublishUpdate and no id, leaves every stream
\* as it was, and leaves the store changed: the new Pending record is stored
\* under the owner's key, ListOperations of the owner returns it, and no
\* stream entry carries its id.
C21_CreateNotAtomic ==
  [][(calls' # calls /\ ret'.op = "create" /\ ret'.fault = "xadd") =>
       LET key == OperationKey(ret'.user, <<NewUUID>>)
       IN  /\ ret'.err = "ErrFailedToPublishUpdate" /\ ret'.id = <<>>
           /\ streams' = streams /\ created' = created
           /\ key \notin DOMAIN store /\ key \in DOMAIN store'
           /\ store' # store
           /\ \A k \in DOMAIN store : k \in DOMAIN store' /\ store'[k] = store[k]
           /\ Unmarshal(store'[key]) = NewOperation(NewUUID, ret'.user, calls)
           /\ Unmarshal(store'[key]).Status = "Pending"
           /\ Unmarshal(store'[key]) \in ListOperations(store', ret'.user)
           /\ NewUUID \notin Notified']_vars

\* C21 witness: the last call was a create whose stream append failed, and the
\* store holds a record of that owner that no successful create made and no
\* stream entry carries, beside a record a successful create made.
C21_Witness ==
  /\ ret.op = "create" /\ ret.fault = "xadd" /\ ret.err = "ErrFailedToPublishUpdate"
  /\ \E op \in ListOperations(store, ret.user) :
       /\ op.UserID = ret.user /\ op.Status = "Pending"
       /\ <<op.UserID, op.Key>> \notin created
       /\ op.Key \notin Notified
  /\ created # {}

\* C22 (as claimed): a create, markRead or update call made for owner u (for
\* update: with a composite id that starts with u and a colon) leaves every
\* record whose owner is not u and every other owner's stream as they were,
\* and leaves the id and the owner of every record it rewrites as they were.
C22_OwnerIsolation ==
  [][(calls' # calls /\ ret'.op \in {"create", "markRead", "update"}) =>
       LET owners == IF ret'.op = "update"
                     THEN {u \in UserIDs : /\ Len(ret'.id) > Len(u)
                                           /\ SubSeq(ret'.id, 1, Len(u)) = u}
                     ELSE {ret'.user}
       IN  \A u \in owners :
             /\ \A key \in DOMAIN store :
                  /\ key \in DOMAIN store'
                  /\ Unmarshal(store'[key]).Key = Unmarshal(store[key]).Key
                  /\ Unmarshal(store'[key]).UserID = Unmarshal(store[key]).UserID
                  /\ Unmarshal(store[key]).UserID # u => store'[key] = store[key]
             /\ \A v \in UserIDs \ {u} :
                  StreamLen(streams', StreamKey(v)) = StreamLen(streams, StreamKey(v))]_vars

====
